---- MODULE Spec2Model ----
(***************************************************************************)
(* A model of spm.ttl2html: the Turtle-to-HTML converter.                  *)
(*                                                                         *)
(*   src/src/parser.rs  Triple, SubjectGroup, IndexEntry,                  *)
(*                      update_triple_with_links, convert_file,            *)
(*                      generate_index, is_valid_url                       *)
(*   src/src/main.rs    main (the run loop) and a second copy of the       *)
(*                      functions above whose Triple has no object_link    *)
(*                      and whose update_triple_with_links has no object   *)
(*                      block.                                             *)
(*                                                                         *)
(* Three specifications share the module:                                  *)
(*   SpecLinks  update_triple_with_links as a function of one triple and   *)
(*              one prefix Vec, applied once and then a second time;       *)
(*   Spec       one call of convert_file: the ingest loop, grouping,       *)
(*              sorting, rendering and writing (FairSpec adds fairness);   *)
(*   SpecMain   main: setup, the walk over the input directory, the       *)
(*              index.                                                     *)
(*                                                                         *)
(* A String is a sequence of one-character strings.  Option<String> is a   *)
(* sequence of length 0 (None) or 1 (Some).                                *)
(***************************************************************************)
EXTENDS Integers, Sequences, FiniteSets, TLC

\* ------------------------------------------------------------------ bounds
\* longest field value enumerated in SpecLinks
MaxLen == 4
\* longest prefix Vec handed to update_triple_with_links in SpecLinks
MaxPrefixes == 2
\* most statements in the Turtle document of Spec
MaxStmts == 3
\* most triples one parse step emits in Spec
MaxBatch == 2
\* most triples accumulated by the ingest loop in Spec
MaxTriples == 3
\* most directory entries the walk of SpecMain yields
MaxEntries == 3

VARIABLES
    \* SpecLinks
    copy, raw, triple, prev, prefixes_arg, applied,
    \* Spec: convert_file
    pc, remaining, at_bad, namespaces, declared, unparsed_triples, prefixes,
    triples, subject_groups_map, iter_order, subject_groups, result,
    \* SpecMain: main
    m_pc, walk, pos, index_entries, log, run_result

links_vars == <<copy, raw, triple, prev, prefixes_arg, applied>>
convert_vars == <<pc, remaining, at_bad, namespaces, declared, unparsed_triples,
                  prefixes, triples, subject_groups_map, iter_order,
                  subject_groups, result>>
main_vars == <<m_pc, walk, pos, index_entries, log, run_result>>
vars == <<links_vars, convert_vars, main_vars>>

\* ----------------------------------------------------------------- strings
Range(s) == {s[i] : i \in DOMAIN s}

\* Option<String>
None == <<>>
Some(s) == <<s>>

\* the characters of the model: two ASCII letters, ':' and '_'
Letters == {"a", "b"}

\* the byte of a character, for str::cmp
Byte(c) == CASE c = ":" -> 58 [] c = "_" -> 95 [] c = "a" -> 97 [] c = "b" -> 98

\* all strings over alphabet A of length at most n
Strs(A, n) == UNION {[1..k -> A] : k \in 0..n}

\* str::starts_with
StartsWith(s, p) == Len(p) <= Len(s) /\ SubSeq(s, 1, Len(p)) = p

\* the string without its first n characters
Drop(s, n) == SubSeq(s, n + 1, Len(s))

RECURSIVE replace(_, _)
\* str::replace(pat, ""): every non-overlapping match of pat, scanned from
\* the left, is removed (pat is not empty)
replace(s, pat) ==
    IF Len(s) < Len(pat) THEN s
    ELSE IF StartsWith(s, pat) THEN replace(Drop(s, Len(pat)), pat)
    ELSE <<Head(s)>> \o replace(Tail(s), pat)

\* Url::parse(s).is_ok() for a string without a base: the string must open
\* with a scheme, a letter followed by scheme characters up to a ':'.  The
\* letters stand for a non-special scheme, after which every remainder
\* parses.
is_valid_url(s) ==
    \E i \in 2..Len(s) : s[i] = ":" /\ \A j \in 1..(i - 1) : s[j] \in Letters

\* the outcome of `for prefix in prefixes { if v.starts_with(prefix) {..; break} }`:
\* the index of the first prefix that v starts with, 0 when there is none
FirstMatch(v, ps) ==
    IF \E i \in DOMAIN ps : StartsWith(v, ps[i])
    THEN CHOOSE i \in DOMAIN ps :
            /\ StartsWith(v, ps[i])
            /\ \A j \in 1..(i - 1) : ~StartsWith(v, ps[j])
    ELSE 0

\* ------------------------------------------------------------------ Triple
\* the Triple built by the parse_step callback from the extracted strings
NewTriple(s, p, o) ==
    [subject |-> s, predicate |-> p, object |-> o,
     subject_link |-> None, subject_label |-> s,
     predicate_link |-> None, object_link |-> None]

\* the subject block of update_triple_with_links
UpdateSubject(t, ps) ==
    IF is_valid_url(t.subject) /\ FirstMatch(t.subject, ps) # 0
    THEN [t EXCEPT !.subject_link = Some(t.subject),
                   !.subject_label = replace(t.subject, ps[FirstMatch(t.subject, ps)])]
    ELSE t

\* a predicate block that writes the subject's link: the slip a copied block invites
UpdatePredicate_WritesSubject(t, ps) ==
    IF is_valid_url(t.predicate) /\ FirstMatch(t.predicate, ps) # 0
    THEN [t EXCEPT !.subject_link = Some(t.predicate),
                   !.predicate = replace(t.predicate, ps[FirstMatch(t.predicate, ps)])]
    ELSE t

\* the predicate block of update_triple_with_links
UpdatePredicate(t, ps) ==
    IF is_valid_url(t.predicate) /\ FirstMatch(t.predicate, ps) # 0
    THEN [t EXCEPT !.predicate_link = Some(t.predicate),
                   !.predicate = replace(t.predicate, ps[FirstMatch(t.predicate, ps)])]
    ELSE t

\* the object block of update_triple_with_links (parser.rs only)
UpdateObject(t, ps) ==
    IF is_valid_url(t.object) /\ FirstMatch(t.object, ps) # 0
    THEN [t EXCEPT !.object_link = Some(t.object),
                   !.object = replace(t.object, ps[FirstMatch(t.object, ps)])]
    ELSE t

\* update_triple_with_links of parser.rs
update_triple_with_links(t, ps) ==
    UpdateObject(UpdatePredicate(UpdateSubject(t, ps), ps), ps)

\* update_triple_with_links of main.rs: no object block
update_triple_with_links_main(t, ps) ==
    UpdatePredicate(UpdateSubject(t, ps), ps)

\* the copy of update_triple_with_links in source file c
UpdateIn(c, t, ps) ==
    IF c = "parser.rs" THEN update_triple_with_links(t, ps)
    ELSE update_triple_with_links_main(t, ps)

\* ------------------------------------------------- idle values of each part
LinksIdle ==
    /\ copy = "parser.rs"
    /\ raw = NewTriple(<<>>, <<>>, <<>>)
    /\ triple = NewTriple(<<>>, <<>>, <<>>)
    /\ prev = NewTriple(<<>>, <<>>, <<>>)
    /\ prefixes_arg = <<>>
    /\ applied = 0

ConvertIdle ==
    /\ pc = "idle"
    /\ remaining = 0
    /\ at_bad = FALSE
    /\ namespaces = <<>>
    /\ declared = {}
    /\ unparsed_triples = <<>>
    /\ prefixes = <<>>
    /\ triples = <<>>
    /\ subject_groups_map = <<>>
    /\ iter_order = <<>>
    /\ subject_groups = <<>>
    /\ result = "none"

MainIdle ==
    /\ m_pc = "idle"
    /\ walk = <<>>
    /\ pos = 1
    /\ index_entries = <<>>
    /\ log = <<>>
    /\ run_result = "none"

\* ================================================================ SpecLinks
\* the field values enumerated in full
Values == Strs({"a", "b", ":"}, MaxLen)

\* the values given to the two fields that are not enumerated in full: a URL
\* under "a:" and a blank node
Fill == {<<"a", ":", "b">>, <<"_", ":", "b">>}

\* the prefix strings: two namespaces and a string that is no URL, which the
\* blank node of Fill starts with
PrefixPool == {<<"a", ":">>, <<"b", ":">>, <<"_", ":">>}

\* the raw triples of SpecLinks: one field ranges over Values, two over Fill
RawTriples ==
    {NewTriple(v, f, g) : v \in Values, f \in Fill, g \in Fill}
    \cup {NewTriple(f, v, g) : v \in Values, f \in Fill, g \in Fill}
    \cup {NewTriple(f, g, v) : v \in Values, f \in Fill, g \in Fill}

PrefixVecs == UNION {[1..k -> PrefixPool] : k \in 0..MaxPrefixes}

LinksInit ==
    /\ copy \in {"parser.rs", "main.rs"}
    /\ raw \in RawTriples
    /\ triple = raw
    /\ prev = raw
    /\ prefixes_arg \in PrefixVecs
    /\ applied = 0
    /\ ConvertIdle
    /\ MainIdle

\* update_triple_with_links(&mut triple, &prefixes) on the extracted triple
Resolve ==
    /\ applied = 0
    /\ prev' = triple
    /\ triple' = UpdateIn(copy, triple, prefixes_arg)
    /\ applied' = 1
    /\ UNCHANGED <<copy, raw, prefixes_arg, convert_vars, main_vars>>

\* update_triple_with_links again, on the resolved triple, same prefixes
ResolveAgain ==
    /\ applied = 1
    /\ prev' = triple
    /\ triple' = UpdateIn(copy, triple, prefixes_arg)
    /\ applied' = 2
    /\ UNCHANGED <<copy, raw, prefixes_arg, convert_vars, main_vars>>

LinksNext == Resolve \/ ResolveAgain

SpecLinks == LinksInit /\ [][LinksNext]_vars

\* ---------------------------------------------------- claims on SpecLinks
\* value v is a valid URL and starts with a prefix of the Vec
Matches(v, ps) == is_valid_url(v) /\ \E i \in DOMAIN ps : StartsWith(v, ps[i])

\* d is v with one of the prefixes it starts with stripped from its front
Shortened(v, d, ps) ==
    \E i \in DOMAIN ps : StartsWith(v, ps[i]) /\ d = Drop(v, Len(ps[i]))

RECURSIVE ReplaceFirst(_, _)
\* s with its first occurrence of pat removed, the later ones kept
ReplaceFirst(s, pat) ==
    IF Len(s) < Len(pat) THEN s
    ELSE IF StartsWith(s, pat) THEN Drop(s, Len(pat))
    ELSE <<Head(s)>> \o ReplaceFirst(Tail(s), pat)

\* C3: after one resolution, each of subject, predicate and object whose raw
\* value is a valid URL starting with a prefix of the Vec has its link set to
\* the raw value and its display value (subject_label, predicate, object) set
\* to the raw value with that prefix stripped; subject itself is unchanged.
C3_FieldsLinkedAndShortened ==
    applied = 1 =>
        /\ triple.subject = raw.subject
        /\ Matches(raw.subject, prefixes_arg) =>
              /\ triple.subject_link = Some(raw.subject)
              /\ Shortened(raw.subject, triple.subject_label, prefixes_arg)
        /\ Matches(raw.predicate, prefixes_arg) =>
              /\ triple.predicate_link = Some(raw.predicate)
              /\ Shortened(raw.predicate, triple.predicate, prefixes_arg)
        /\ Matches(raw.object, prefixes_arg) =>
              /\ triple.object_link = Some(raw.object)
              /\ Shortened(raw.object, triple.object, prefixes_arg)

\* C5: a second resolution with the same prefix Vec leaves every field of the
\* resolved triple as the first resolution left it.
C5_Idempotent == applied = 2 => triple = prev

\* C6: after one resolution, a field whose raw value is not a valid URL, or
\* starts with no prefix of the Vec, has no link and its raw display value
\* (for the subject: subject_label = subject = the raw subject); a link that
\* is set is the field's own raw value, and subject is never rewritten.
C6_UnmatchedFieldUntouched ==
    applied = 1 =>
        /\ triple.subject = raw.subject
        /\ ~Matches(raw.subject, prefixes_arg) =>
              triple.subject_link = None /\ triple.subject_label = raw.subject
        /\ ~Matches(raw.predicate, prefixes_arg) =>
              triple.predicate_link = None /\ triple.predicate = raw.predicate
        /\ ~Matches(raw.object, prefixes_arg) =>
              triple.object_link = None /\ triple.object = raw.object
        /\ triple.subject_link \in {None, Some(raw.subject)}
        /\ triple.predicate_link \in {None, Some(raw.predicate)}
        /\ triple.object_link \in {None, Some(raw.object)}

\* C6 witness: resolved once; the subject is a blank node, the predicate was
\* linked, the object is a valid URL that starts with no prefix of the Vec.
C6_Witness ==
    /\ applied = 1
    /\ ~is_valid_url(raw.subject)
    /\ triple.predicate_link # None
    /\ is_valid_url(raw.object)
    /\ ~Matches(raw.object, prefixes_arg)
    /\ triple.object = raw.object

\* C10: after one resolution, the display value of every linked field is the
\* original value (kept in the link) with only the first occurrence of the
\* matched prefix removed.
C10_OneOccurrenceRemoved ==
    applied = 1 =>
        /\ triple.subject_link # None =>
              triple.subject_label =
                  ReplaceFirst(raw.subject, prefixes_arg[FirstMatch(raw.subject, prefixes_arg)])
        /\ triple.predicate_link # None =>
              triple.predicate =
                  ReplaceFirst(raw.predicate, prefixes_arg[FirstMatch(raw.predicate, prefixes_arg)])
        /\ triple.object_link # None =>
              triple.object =
                  ReplaceFirst(raw.object, prefixes_arg[FirstMatch(raw.object, prefixes_arg)])

\* ===================================================== Spec: convert_file
\* the prefix names and namespace IRIs a document declares
Names == {<<"p">>, <<"q">>}
NsA == <<"a", ":">>
NsB == <<"b", ":">>
Iris == {NsA, NsB}

\* the triples a document states: two with one subject under "a:" (an object
\* under "b:", a literal), one with a subject under "b:", one with a blank
\* node; the predicate is under "a:"
RawPool ==
    {NewTriple(<<"a", ":", "b">>, <<"a", ":", "a">>, <<"b", ":", "b">>),
     NewTriple(<<"a", ":", "b">>, <<"a", ":", "a">>, <<"b">>),
     NewTriple(<<"b", ":", "a">>, <<"a", ":", "a">>, <<"b">>),
     NewTriple(<<"_", ":", "b">>, <<"a", ":", "a">>, <<"b">>)}

\* the triples one statement hands to the callback: at least lo of them
Batches(lo, room) ==
    UNION {[1..k -> RawPool] : k \in lo..(IF room < MaxBatch THEN room ELSE MaxBatch)}

\* the orders in which the elements of set S can be iterated
Orderings(S) == {f \in [1..Cardinality(S) -> S] : Range(f) = S}

\* The Turtle parser (rio_turtle) is a library outside the repository.  It is
\* modelled by what convert_file sees of it: the statements left to read
\* (remaining), whether the reader rests on a byte that opens no statement
\* (at_bad), the prefix table (namespaces), and the triples each parse_step
\* hands to the callback.  declared records every IRI a directive has bound.

\* parser.is_end(): the reader has no current byte
is_end == remaining = 0 /\ ~at_bad

ConvertInit ==
    /\ pc = "read"
    /\ remaining \in 0..MaxStmts
    /\ at_bad = FALSE
    /\ namespaces = <<>>
    /\ declared = {}
    /\ unparsed_triples = <<>>
    /\ prefixes = <<>>
    /\ triples = <<>>
    /\ subject_groups_map = <<>>
    /\ iter_order = <<>>
    /\ subject_groups = <<>>
    /\ result = "none"
    /\ LinksIdle
    /\ MainIdle

\* fs::read_to_string(input_path)?
ReadInput ==
    /\ pc = "read"
    /\ \/ pc' = "parse_step" /\ UNCHANGED result
       \/ pc' = "done" /\ result' = "Err"
    /\ UNCHANGED <<remaining, at_bad, namespaces, declared, unparsed_triples,
                   prefixes, triples, subject_groups_map, iter_order,
                   subject_groups, links_vars, main_vars>>

\* parse_step at the end of the input: Ok, nothing is read
StepAtEnd ==
    /\ remaining = 0 /\ ~at_bad
    /\ unparsed_triples' = <<>>
    /\ UNCHANGED <<remaining, at_bad, namespaces, declared>>

\* parse_step on a @prefix directive: the name is bound to the IRI, a name
\* bound before is bound anew
StepPrefix ==
    /\ remaining > 0 /\ ~at_bad
    /\ \E n \in Names, iri \in Iris :
          /\ namespaces' = (n :> iri) @@ namespaces
          /\ declared' = declared \cup {iri}
    /\ remaining' = remaining - 1
    /\ unparsed_triples' = <<>>
    /\ UNCHANGED at_bad

\* parse_step on a statement of triples: the callback pushes each of them
StepTriples ==
    /\ remaining > 0 /\ ~at_bad
    /\ Len(triples) < MaxTriples
    /\ unparsed_triples' \in Batches(1, MaxTriples - Len(triples))
    /\ remaining' = remaining - 1
    /\ UNCHANGED <<at_bad, namespaces, declared>>

\* parse_step on a malformed statement: Err, dropped by `let _ =`.  The
\* triples stated before the error were pushed.  The reader stops at the byte
\* it could not parse: either what follows parses again, or that byte opens
\* no statement and the reader stays on it.
StepError ==
    /\ remaining > 0 /\ ~at_bad
    /\ unparsed_triples' \in Batches(0, MaxTriples - Len(triples))
    /\ \/ remaining' = remaining - 1 /\ UNCHANGED at_bad
       \/ at_bad' = TRUE /\ UNCHANGED remaining
    /\ UNCHANGED <<namespaces, declared>>

\* parse_step with the reader on a byte that opens no statement: Err again,
\* nothing is read
StepStuck ==
    /\ at_bad
    /\ unparsed_triples' = <<>>
    /\ UNCHANGED <<remaining, at_bad, namespaces, declared>>

\* `let _ = parser.parse_step(&mut |t| {...})` with a fresh unparsed_triples;
\* the prefixes of the iteration before are out of scope
ParseStep ==
    /\ pc = "parse_step"
    /\ (StepAtEnd \/ StepPrefix \/ StepTriples \/ StepError \/ StepStuck)
    /\ pc' = "annotate"
    /\ prefixes' = <<>>
    /\ UNCHANGED <<triples, subject_groups_map, iter_order,
                   subject_groups, result, links_vars, main_vars>>

\* keys() for values(): the prefix names, not the namespace IRIs
CollectPrefixes_Keys(ns) == Orderings(DOMAIN ns)

\* parser.prefixes().values().collect(): the values of the prefix table, in
\* one of the orders the HashMap may iterate in
CollectPrefixes(ns) == {[i \in DOMAIN ord |-> ns[ord[i]]] : ord \in Orderings(DOMAIN ns)}

\* the for loop over unparsed_triples: each triple resolved, then pushed
AnnotateAll(us, ps) == [i \in DOMAIN us |-> update_triple_with_links(us[i], ps)]

\* the rest of the loop body: the prefixes, the for loop, the is_end test
Annotate ==
    /\ pc = "annotate"
    /\ prefixes' \in CollectPrefixes(namespaces)
    /\ triples' = triples \o AnnotateAll(unparsed_triples, prefixes')
    /\ unparsed_triples' = <<>>
    /\ pc' = IF is_end THEN "group" ELSE "parse_step"
    /\ UNCHANGED <<remaining, at_bad, namespaces, declared, subject_groups_map,
                   iter_order, subject_groups, result, links_vars, main_vars>>

\* insert(subject, vec![triple]) for entry().or_insert_with().push(): the
\* triples pushed before under the subject are lost
GroupInsert_Overwrites(map, t) == (t.subject :> <<t>>) @@ map

\* subject_groups_map.entry(subject).or_insert_with(Vec::new).push(triple)
GroupInsert(map, t) ==
    IF t.subject \in DOMAIN map
    THEN [map EXCEPT ![t.subject] = Append(@, t)]
    ELSE (t.subject :> <<t>>) @@ map

RECURSIVE GroupAll(_, _)
\* the for loop over triples that fills subject_groups_map
GroupAll(map, ts) ==
    IF ts = <<>> THEN map ELSE GroupAll(GroupInsert(map, Head(ts)), Tail(ts))

\* a closure that copies label and link from the last triple, not triples[0]
MakeGroup_FromLast(subject, ts) ==
    [subject |-> subject,
     subject_link |-> ts[Len(ts)].subject_link,
     subject_label |-> ts[Len(ts)].subject_label,
     triples |-> ts]

\* the closure of .map(): one SubjectGroup from one entry of the map
MakeGroup(subject, ts) ==
    [subject |-> subject,
     subject_link |-> ts[1].subject_link,
     subject_label |-> ts[1].subject_label,
     triples |-> ts]

\* the map, and the Vec collected from it in the HashMap's iteration order;
\* the loop's prefixes are out of scope
Group ==
    /\ pc = "group"
    /\ subject_groups_map' = GroupAll(<<>>, triples)
    /\ iter_order' \in Orderings(DOMAIN subject_groups_map')
    /\ subject_groups' =
          [i \in DOMAIN iter_order' |->
              MakeGroup(iter_order'[i], subject_groups_map'[iter_order'[i]])]
    /\ pc' = "sort"
    /\ prefixes' = <<>>
    /\ UNCHANGED <<remaining, at_bad, namespaces, declared, unparsed_triples,
                   triples, result, links_vars, main_vars>>

RECURSIVE StrLess(_, _)
\* a.cmp(b) == Less for two strings: bytewise, a proper prefix is less
StrLess(a, b) ==
    IF b = <<>> THEN FALSE
    ELSE IF a = <<>> THEN TRUE
    ELSE IF Byte(Head(a)) # Byte(Head(b)) THEN Byte(Head(a)) < Byte(Head(b))
    ELSE StrLess(Tail(a), Tail(b))

RECURSIVE InsertGroup(_, _)
\* g placed in the sorted Vec gs after every group that is not greater
InsertGroup(gs, g) ==
    IF gs = <<>> THEN <<g>>
    ELSE IF StrLess(g.subject, Head(gs).subject) THEN <<g>> \o gs
    ELSE <<Head(gs)>> \o InsertGroup(Tail(gs), g)

RECURSIVE SortFrom(_, _)
SortFrom(sorted, gs) ==
    IF gs = <<>> THEN sorted ELSE SortFrom(InsertGroup(sorted, Head(gs)), Tail(gs))

\* a sort that leaves the Vec as collected
sort_by_subject_Omitted(gs) == gs

\* subject_groups.sort_by(|a, b| a.subject.cmp(&b.subject)): a stable sort
sort_by_subject(gs) == SortFrom(<<>>, gs)

Sort ==
    /\ pc = "sort"
    /\ subject_groups' = sort_by_subject(subject_groups)
    /\ pc' = "render"
    /\ UNCHANGED <<remaining, at_bad, namespaces, declared, unparsed_triples,
                   prefixes, triples, subject_groups_map, iter_order, result,
                   links_vars, main_vars>>

\* tera.render("page", &context)?; the map was consumed by into_iter
Render ==
    /\ pc = "render"
    /\ \/ pc' = "write" /\ UNCHANGED result
       \/ pc' = "done" /\ result' = "Err"
    /\ subject_groups_map' = <<>>
    /\ iter_order' = <<>>
    /\ UNCHANGED <<remaining, at_bad, namespaces, declared, unparsed_triples,
                   prefixes, triples, subject_groups, links_vars, main_vars>>

\* strip_prefix(input_dir)?, create_dir_all(parent)?, fs::write(..)?, Ok(..)
WriteOutput ==
    /\ pc = "write"
    /\ result' \in {"Err", "Ok"}
    /\ pc' = "done"
    /\ UNCHANGED <<remaining, at_bad, namespaces, declared, unparsed_triples,
                   prefixes, triples, subject_groups_map, iter_order,
                   subject_groups, links_vars, main_vars>>

Next == ReadInput \/ ParseStep \/ Annotate \/ Group \/ Sort \/ Render \/ WriteOutput

Spec == ConvertInit /\ [][Next]_vars

\* the program runs on: it is one thread that nothing suspends
FairSpec == Spec /\ WF_vars(Next)

\* -------------------------------------------------------- claims on Spec
\* subject_groups holds the groups of the accumulated triples
Grouped == pc \in {"sort", "render", "write", "done"}

\* subject_groups is as handed to the "page" template
Sorted == pc \in {"render", "write", "done"}

\* the number of positions of sequence s that hold x
CountIn(s, x) == Cardinality({i \in DOMAIN s : s[i] = x})

RECURSIVE SumOfLens(_)
SumOfLens(gs) == IF gs = <<>> THEN 0 ELSE Len(Head(gs).triples) + SumOfLens(Tail(gs))

RECURSIVE SumOfCounts(_, _)
SumOfCounts(gs, x) ==
    IF gs = <<>> THEN 0 ELSE CountIn(Head(gs).triples, x) + SumOfCounts(Tail(gs), x)

\* C1: the groups partition the accumulated triples by subject: every triple
\* of a group has the group's subject, no two groups share a subject, every
\* accumulated triple is in exactly one group, as often as it was accumulated,
\* and the groups' triple counts sum to the number of accumulated triples.
C1_GroupsPartitionTriples ==
    Grouped =>
        /\ \A g \in DOMAIN subject_groups :
              \A k \in DOMAIN subject_groups[g].triples :
                  subject_groups[g].triples[k].subject = subject_groups[g].subject
        /\ \A g, h \in DOMAIN subject_groups :
              subject_groups[g].subject = subject_groups[h].subject => g = h
        /\ \A i \in DOMAIN triples :
              /\ Cardinality({g \in DOMAIN subject_groups :
                     triples[i] \in Range(subject_groups[g].triples)}) = 1
              /\ SumOfCounts(subject_groups, triples[i]) = CountIn(triples, triples[i])
        /\ SumOfLens(subject_groups) = Len(triples)

\* C1 witness: grouped, three triples in two groups, one triple stated twice.
C1_Witness ==
    /\ pc = "sort"
    /\ Len(triples) = 3
    /\ Len(subject_groups) = 2
    /\ \E i, j \in DOMAIN triples : i # j /\ triples[i] = triples[j]

\* C2: the groups handed to the "page" template are in non-decreasing
\* bytewise order of subject, whatever order the map was iterated in.
C2_GroupsSortedBySubject ==
    Sorted =>
        \A g, h \in DOMAIN subject_groups :
            g < h => ~StrLess(subject_groups[h].subject, subject_groups[g].subject)

\* C2 witness: three groups about to be rendered, which the map's iteration
\* yielded in descending order.
C2_Witness ==
    /\ pc = "render"
    /\ Len(subject_groups) = 3
    /\ Len(iter_order) = 3
    /\ StrLess(iter_order[3], iter_order[2])
    /\ StrLess(iter_order[2], iter_order[1])

\* C9: each group's triples are the accumulated triples with its subject, in
\* ingest order, before the sort and after it; the group's subject_label and
\* subject_link are those of the first of them.
C9_GroupKeepsIngestOrder ==
    Grouped =>
        \A g \in DOMAIN subject_groups :
            /\ subject_groups[g].triples =
                  SelectSeq(triples, LAMBDA t : t.subject = subject_groups[g].subject)
            /\ \E i \in DOMAIN triples :
                  /\ triples[i].subject = subject_groups[g].subject
                  /\ \A j \in 1..(i - 1) : triples[j].subject # subject_groups[g].subject
                  /\ subject_groups[g].subject_label = triples[i].subject_label
                  /\ subject_groups[g].subject_link = triples[i].subject_link

\* C9 witness: sorted; a group of two triples whose first was ingested
\* before the prefix was declared and whose second was linked, and a group
\* with a smaller subject ingested after them.
C9_Witness ==
    /\ pc = "render"
    /\ \E g \in DOMAIN subject_groups :
          /\ Len(subject_groups[g].triples) = 2
          /\ subject_groups[g].triples[1].subject_link = None
          /\ subject_groups[g].triples[2].subject_link # None
          /\ subject_groups[g].subject_link = None
          /\ g > 1
          /\ triples[Len(triples)].subject = subject_groups[1].subject

\* the namespace IRIs the prefix table holds now
Known == {namespaces[n] : n \in DOMAIN namespaces}

\* sequence s opens sequence t
IsPrefix(s, t) == Len(s) <= Len(t) /\ SubSeq(t, 1, Len(s)) = s

\* the links set on triple t
LinksOf(t) ==
    {l[1] : l \in {t.subject_link, t.predicate_link, t.object_link} \ {None}}

\* field value v of a triple resolved against prefix set P must be linked
MustLink(v, P) == is_valid_url(v) /\ \E q \in P : StartsWith(v, q)

\* what C4 says of one step of convert_file, with P the prefixes that apply
\* to the triples of the step: accumulated triples are never changed; the
\* triples of the step are resolved against a Vec that holds all of P, each
\* of its links is by a prefix the table holds at the end of the step, and
\* each subject, predicate and object under a prefix of P is linked.
C4_Step(P) ==
    /\ IsPrefix(triples, triples')
    /\ (pc = "annotate" /\ unparsed_triples # <<>>) =>
          /\ Len(triples') = Len(triples) + Len(unparsed_triples)
          /\ P \subseteq Range(prefixes')
          /\ \A i \in DOMAIN unparsed_triples :
                /\ \A l \in LinksOf(triples'[Len(triples) + i]) :
                      \E q \in Known : StartsWith(l, q)
                /\ MustLink(unparsed_triples[i].subject, P) =>
                      triples'[Len(triples) + i].subject_link # None
                /\ MustLink(unparsed_triples[i].predicate, P) =>
                      triples'[Len(triples) + i].predicate_link # None
                /\ MustLink(unparsed_triples[i].object, P) =>
                      triples'[Len(triples) + i].object_link # None

\* C4 as stated: the prefixes that apply to the triples of a step are all
\* those declared up to that step.
C4_DeclaredPrefixesApply == [][C4_Step(declared)]_vars

\* C4 as amended: the prefixes that apply to the triples of a step are those
\* the prefix table holds at the end of that step; a namespace whose name was
\* declared anew with another IRI no longer applies.
C4_KnownPrefixesApply == [][C4_Step(Known)]_vars

\* C4 witness: one subject ingested twice, unlinked before the declaration of
\* its prefix and linked after it.
C4_Witness ==
    /\ pc = "parse_step"
    /\ \E i, j \in DOMAIN triples :
          /\ i < j
          /\ triples[i].subject = triples[j].subject
          /\ triples[i].subject_link = None
          /\ triples[j].subject_link # None
          /\ triples[j].subject_label # triples[j].subject

\* C8: the ingest loop is left on every input: convert_file gets to the
\* grouping, or has returned.
C8_IngestLoopTerminates == <>(pc \in {"group", "done"})

\* ========================================================= SpecMain: main
\* what WalkDir yields under the input directory: an entry that is an error,
\* a directory, a directory named like a Turtle file, two Turtle files (one
\* in the directory), a file of another kind
EntryPool ==
    {[kind |-> "err", dir |-> <<>>, stem |-> "", ext |-> ""],
     [kind |-> "dir", dir |-> <<>>, stem |-> "sub", ext |-> ""],
     [kind |-> "dir", dir |-> <<>>, stem |-> "d", ext |-> "ttl"],
     [kind |-> "file", dir |-> <<>>, stem |-> "a", ext |-> "ttl"],
     [kind |-> "file", dir |-> <<"sub">>, stem |-> "b", ext |-> "ttl"],
     [kind |-> "file", dir |-> <<>>, stem |-> "c", ext |-> "txt"]}

\* the walks: each entry is met once
Walks ==
    UNION {{w \in [1..k -> EntryPool] : \A i, j \in 1..k : w[i] = w[j] => i = j} :
              k \in 0..MaxEntries}

\* the calls of convert_file that can return Err, and "none" for Ok
ConvertFailures == {"none", "read_to_string", "render", "strip_prefix",
                    "create_dir_all", "write"}

\* the Result of convert_file(path, ..) when the call named by fail returns
\* Err: with none, Ok of the path under the input directory, extension html
convert_file(e, fail) ==
    IF fail = "none"
    THEN [ok |-> TRUE, rel_path |-> [dir |-> e.dir, stem |-> e.stem, ext |-> "html"]]
    ELSE [ok |-> FALSE, rel_path |-> <<>>]

\* IndexEntry { path: rel_path, name: path.file_name() }
IndexEntry(e, rel_path) == [path |-> rel_path, name |-> <<e.stem, e.ext>>]

\* a match that lists the file whether or not it was converted
OnResult_ListsFailures(entries, e, r) ==
    Append(entries, IndexEntry(e, [dir |-> e.dir, stem |-> e.stem, ext |-> "html"]))

\* match convert_file(..) { Ok(rel_path) => push, Err(e) => eprintln }
OnResult(entries, e, r) ==
    IF r.ok THEN Append(entries, IndexEntry(e, r.rel_path)) ELSE entries

MainInit ==
    /\ m_pc = "setup"
    /\ walk \in Walks
    /\ pos = 1
    /\ index_entries = <<>>
    /\ log = <<>>
    /\ run_result = "none"
    /\ LinksIdle
    /\ ConvertIdle

\* fs::create_dir_all(output_dir)? and the two add_raw_template(..).expect(..)
Setup ==
    /\ m_pc = "setup"
    /\ \/ m_pc' = "walk" /\ UNCHANGED run_result
       \/ m_pc' = "exit" /\ run_result' = "Err(create_dir_all)"
       \/ m_pc' = "exit" /\ run_result' = "panic(template)"
    /\ UNCHANGED <<walk, pos, index_entries, log, links_vars, convert_vars>>

\* one entry of the walk that the filters drop: an error, no file, no .ttl
SkipEntry ==
    /\ m_pc = "walk"
    /\ pos <= Len(walk)
    /\ ~(walk[pos].kind = "file" /\ walk[pos].ext = "ttl")
    /\ pos' = pos + 1
    /\ UNCHANGED <<m_pc, walk, index_entries, log, run_result, links_vars,
                   convert_vars>>

\* one Turtle file of the walk: convert_file and the match on its Result
ConvertEntry ==
    /\ m_pc = "walk"
    /\ pos <= Len(walk)
    /\ walk[pos].kind = "file" /\ walk[pos].ext = "ttl"
    /\ \E fail \in ConvertFailures :
          /\ index_entries' = OnResult(index_entries, walk[pos],
                                       convert_file(walk[pos], fail))
          /\ log' = Append(log, [entry |-> walk[pos], failed |-> fail])
    /\ pos' = pos + 1
    /\ UNCHANGED <<m_pc, walk, run_result, links_vars, convert_vars>>

\* the walk is over: generate_index is called
WalkDone ==
    /\ m_pc = "walk"
    /\ pos > Len(walk)
    /\ m_pc' = "generate_index"
    /\ UNCHANGED <<walk, pos, index_entries, log, run_result, links_vars,
                   convert_vars>>

\* generate_index(output_dir, &index_entries, &tera)?; Ok(())
GenerateIndex ==
    /\ m_pc = "generate_index"
    /\ run_result' \in {"Ok", "Err(index render)", "Err(index write)"}
    /\ m_pc' = "exit"
    /\ UNCHANGED <<walk, pos, index_entries, log, links_vars, convert_vars>>

MainNext == Setup \/ SkipEntry \/ ConvertEntry \/ WalkDone \/ GenerateIndex

SpecMain == MainInit /\ [][MainNext]_vars

\* ---------------------------------------------------- claims on SpecMain
\* the Turtle files of the walk, in discovery order
TurtleFiles == SelectSeq(walk, LAMBDA e : e.kind = "file" /\ e.ext = "ttl")

\* the index entry of each logged conversion
EntryOfLogged(l) ==
    [path |-> [dir |-> l.entry.dir, stem |-> l.entry.stem, ext |-> "html"],
     name |-> <<l.entry.stem, l.entry.ext>>]

\* C7: when generate_index is called the run has not failed, convert_file was
\* called on every Turtle file of the walk, in discovery order, whichever of
\* them failed, and index_entries holds one entry for each file whose
\* convert_file returned Ok, in that order, and none for the others; the run
\* fails only in setup or in generate_index.
C7_FailedFilesSkipped ==
    /\ m_pc = "generate_index" =>
          /\ run_result = "none"
          /\ [i \in DOMAIN log |-> log[i].entry] = TurtleFiles
          /\ index_entries =
                [i \in DOMAIN SelectSeq(log, LAMBDA l : l.failed = "none") |->
                    EntryOfLogged(SelectSeq(log, LAMBDA l : l.failed = "none")[i])]
    /\ m_pc = "walk" => run_result = "none"
    /\ Len(index_entries) = Cardinality({i \in DOMAIN log : log[i].failed = "none"})

\* C7 witness: generate_index is called after a file that failed was followed
\* by one that was converted.
C7_Witness ==
    /\ m_pc = "generate_index"
    /\ Len(log) = 2
    /\ log[1].failed = "write"
    /\ log[2].failed = "none"
    /\ Len(index_entries) = 1

====
